---------------------------- MODULE Spec2Model ----------------------------
(***************************************************************************)
(* torrent_free.py: the three edits of a decoded torrent document          *)
(* (remove_private, swap_trackers, swap_webseeds), write_torrent and the   *)
(* control flow of main.                                                   *)
(*                                                                         *)
(* Python values are tagged records [kind, val]:                           *)
(*   none  : None (what lt.bdecode gives for bytes it cannot decode)       *)
(*   int   : val an integer                                                *)
(*   bytes : val a sequence of byte values                                 *)
(*   list  : val a sequence of values                                      *)
(*   dict  : val a function from keys to values; its DOMAIN is the key set *)
(* Dictionary keys are written as TLA+ strings ("info" is b'info');        *)
(* KeyBytes gives the bytes of the keys the code also looks for inside     *)
(* values that are not dictionaries.                                       *)
(***************************************************************************)
EXTENDS Integers, Sequences, FiniteSets, TLC

VARIABLES
    TRACKERS,     \* the module global TRACKERS: a sequence of bytes values
    WEBSEEDS,     \* the module global WEBSEEDS: a sequence of bytes values
    force,        \* results.force
    source,       \* what lt.bdecode makes of the source file
    torrent,      \* the local `torrent` of main / the argument of the edits
    pc,           \* position in main ("edits" / "raised" under SpecEdits)
    calls,        \* the functions called so far, in order
    before,       \* `torrent` as it was when the last function was called
    ret,          \* what the last function returned, or the exception it raised
    outcome,      \* how the process ended: "running", "exit0".."exit3", "uncaught"
    destination   \* what results.destination has received

vars == <<TRACKERS, WEBSEEDS, force, source, torrent, pc, calls, before, ret,
          outcome, destination>>

---------------------------------------------------------------------------
(* Bounds of the model *)

\* longest configured tracker list
MaxTrackers == 3
\* longest configured webseed list
MaxWebseeds == 2
\* most edits applied in a row by SpecEdits
MaxCalls == 2

---------------------------------------------------------------------------
(* Python values *)

NoneV == [kind |-> "none", val |-> 0]
IntV(n) == [kind |-> "int", val |-> n]
BytesV(s) == [kind |-> "bytes", val |-> s]
ListV(s) == [kind |-> "list", val |-> s]
DictV(f) == [kind |-> "dict", val |-> f]

\* a key that a document under construction does not hold
Absent == [kind |-> "absent", val |-> 0]

\* the dictionary of the <<key, value>> pairs whose value is not Absent
MkDict(pairs) ==
    LET held == {j \in 1..Len(pairs) : pairs[j][2] # Absent}
    IN DictV([k \in {pairs[j][1] : j \in held} |->
                pairs[CHOOSE j \in held : pairs[j][1] = k][2]])

\* bool(v)
Truthy(v) ==
    CASE v.kind = "none" -> FALSE
      [] v.kind = "int" -> v.val # 0
      [] v.kind = "bytes" -> Len(v.val) > 0
      [] v.kind = "list" -> Len(v.val) > 0
      [] v.kind = "dict" -> DOMAIN v.val # {}

\* d.get(k) of a dict d
Get(d, k) == IF k \in DOMAIN d.val THEN d.val[k] ELSE NoneV

\* d[k] = v of a dict d
SetItem(d, k, v) ==
    DictV([x \in DOMAIN d.val \cup {k} |-> IF x = k THEN v ELSE d.val[x]])

\* del d[k] of a dict d holding k
DelItem(d, k) == DictV([x \in DOMAIN d.val \ {k} |-> d.val[x]])

\* the bytes of the keys looked for with `in`
KeyBytes ==
    [k \in {"private", "files", "url-list"} |->
        CASE k = "private" -> <<112, 114, 105, 118, 97, 116, 101>>
          [] k = "files" -> <<102, 105, 108, 101, 115>>
          [] k = "url-list" -> <<117, 114, 108, 45, 108, 105, 115, 116>>]

\* s occurs in t as a contiguous run of bytes
IsSubBytes(s, t) ==
    \E i \in 0..(Len(t) - Len(s)) : SubSeq(t, i + 1, i + Len(s)) = s

\* b'<k>' in v: "True", "False", or "TypeError" where v is not a container
Contains(v, k) ==
    CASE v.kind = "dict" -> IF k \in DOMAIN v.val THEN "True" ELSE "False"
      [] v.kind = "list" ->
            IF \E i \in 1..Len(v.val) : v.val[i] = BytesV(KeyBytes[k])
            THEN "True" ELSE "False"
      [] v.kind = "bytes" ->
            IF IsSubBytes(KeyBytes[k], v.val) THEN "True" ELSE "False"
      [] OTHER -> "TypeError"

\* the outcome of a call: the argument as the call left it, and the value
\* returned ("True", "False", "None") or the exception raised
Result(t, r) == [torrent |-> t, ret |-> r]

Raised(r) == r \in {"KeyError", "TypeError", "AttributeError"}

---------------------------------------------------------------------------
(* The edits *)

\* remove_private reporting the flag without deleting it
remove_private_keeps_flag(t) ==
    IF t.kind # "dict" THEN Result(t, "TypeError")
    ELSE IF "info" \notin DOMAIN t.val THEN Result(t, "KeyError")
    ELSE LET has == Contains(t.val["info"], "private")
         IN CASE has = "TypeError" -> Result(t, "TypeError")
              [] has = "False" -> Result(t, "False")
              [] has = "True" ->
                    IF t.val["info"].kind = "dict" THEN Result(t, "True")
                    ELSE Result(t, "TypeError")

\* remove_private deleting b'info' instead of b'private' inside it
remove_private_drops_info(t) ==
    IF t.kind # "dict" THEN Result(t, "TypeError")
    ELSE IF "info" \notin DOMAIN t.val THEN Result(t, "KeyError")
    ELSE LET has == Contains(t.val["info"], "private")
         IN CASE has = "TypeError" -> Result(t, "TypeError")
              [] has = "False" -> Result(t, "False")
              [] has = "True" ->
                    IF t.val["info"].kind = "dict"
                    THEN Result(DelItem(t, "info"), "True")
                    ELSE Result(t, "TypeError")

\* def remove_private(torrent)
remove_private(t) ==
    IF t.kind # "dict" THEN Result(t, "TypeError")
    ELSE IF "info" \notin DOMAIN t.val THEN Result(t, "KeyError")
    ELSE LET info == t.val["info"]
             has == Contains(info, "private")
         IN CASE has = "TypeError" -> Result(t, "TypeError")
              [] has = "False" -> Result(t, "False")
              [] has = "True" ->
                    IF info.kind = "dict"
                    THEN Result(SetItem(t, "info", DelItem(info, "private")),
                                "True")
                    ELSE Result(t, "TypeError")

\* every tracker appended to one tier instead of a tier of its own
Tiers_grouped(T) == ListV(<<ListV(T)>>)

\* the value of torrent[b'announce-list'] after the loop over TRACKERS
Tiers(T) == ListV([i \in 1..Len(T) |-> ListV(<<T[i]>>)])

\* def swap_trackers(torrent)
swap_trackers(t) ==
    IF TRACKERS # <<>>
    THEN IF t.kind # "dict" THEN Result(t, "TypeError")
         ELSE LET t1 == SetItem(t, "announce", TRACKERS[1])
              IN IF Len(TRACKERS) > 1
                 THEN Result(SetItem(t1, "announce-list", Tiers(TRACKERS)),
                             "None")
                 ELSE Result(t1, "None")
    ELSE IF t.kind # "dict" THEN Result(t, "AttributeError")
    ELSE IF Truthy(Get(t, "announce")) \/ Truthy(Get(t, "announce-list"))
    THEN LET t1 == IF Truthy(Get(t, "announce"))
                   THEN DelItem(t, "announce") ELSE t
             t2 == IF Truthy(Get(t1, "announce-list"))
                   THEN DelItem(t1, "announce-list") ELSE t1
         IN Result(t2, "None")
    ELSE Result(t, "None")

\* the operands of the format in the wrong order
Join_swapped(root, name) == BytesV(name.val \o root.val)

\* b'%s%s' % (root, name) of two bytes values
Join(root, name) == BytesV(root.val \o name.val)

\* def swap_webseeds(torrent)
swap_webseeds(t) ==
    IF WEBSEEDS # <<>>
    THEN IF t.kind # "dict" THEN Result(t, "TypeError")
         ELSE IF "info" \notin DOMAIN t.val THEN Result(t, "KeyError")
         ELSE LET info == t.val["info"]
                  multi == Contains(info, "files")
                  t1 == SetItem(t, "url-list", ListV(<<>>))
              IN CASE multi = "TypeError" -> Result(t, "TypeError")
                   [] multi = "True" ->
                        Result(SetItem(t, "url-list", ListV(WEBSEEDS)), "None")
                   [] multi = "False" ->
                        IF info.kind # "dict" THEN Result(t1, "TypeError")
                        ELSE IF "name" \notin DOMAIN info.val
                        THEN Result(t1, "KeyError")
                        ELSE IF info.val["name"].kind # "bytes"
                        THEN Result(t1, "TypeError")
                        ELSE Result(
                               SetItem(t, "url-list",
                                 ListV([i \in 1..Len(WEBSEEDS) |->
                                     Join(WEBSEEDS[i], info.val["name"])])),
                               "None")
    ELSE LET has == Contains(t, "url-list")
         IN CASE has = "TypeError" -> Result(t, "TypeError")
              [] has = "False" -> Result(t, "None")
              [] has = "True" ->
                    IF t.kind = "dict"
                    THEN Result(DelItem(t, "url-list"), "None")
                    ELSE Result(t, "TypeError")

---------------------------------------------------------------------------
(* The inputs *)

\* the tracker URLs and the webseed roots a configuration is made of
TrackerURLs == {BytesV(<<116, 49>>), BytesV(<<116, 50>>)}
WebseedRoot(i) == BytesV(<<119, i, 47>>)

\* the values of TRACKERS: every list of tracker URLs, repeats included
TrackerLists == UNION {[1..n -> TrackerURLs] : n \in 0..MaxTrackers}
\* the values of WEBSEEDS: lists of distinct roots
WebseedLists == {[i \in 1..n |-> WebseedRoot(i)] : n \in 0..MaxWebseeds}

\* tracker and webseed URLs of the source document, none of them configured
OldTracker1 == BytesV(<<111, 49>>)
OldTracker2 == BytesV(<<111, 50>>)
OldWebseed == BytesV(<<111, 119>>)
FileName == BytesV(<<102, 46, 105>>)

Pieces == BytesV(<<0, 255>>)
Comment == BytesV(<<99>>)
FilesList ==
    ListV(<<MkDict(<< <<"length", IntV(7)>>,
                      <<"path", ListV(<<FileName>>)>> >>)>>)

\* values of torrent[b'info'] that are dictionaries
InfoDicts ==
    {MkDict(<< <<"private", p>>, <<"files", f>>, <<"name", n>>,
               <<"pieces", Pieces>> >>) :
        p \in {Absent, IntV(1), IntV(0)},
        f \in {Absent, FilesList},
        n \in {Absent, FileName}}
    \cup {MkDict(<< <<"private", IntV(1)>>, <<"name", IntV(3)>>,
                    <<"pieces", Pieces>> >>)}

\* values of torrent[b'info'], Absent for a document without the key
InfoValues ==
    InfoDicts \cup {Absent, IntV(1), BytesV(KeyBytes["private"]), ListV(<<>>),
                    ListV(<<BytesV(KeyBytes["private"])>>)}

\* decoded dictionaries
Documents ==
    {MkDict(<< <<"info", i>>, <<"announce", a>>, <<"announce-list", l>>,
               <<"url-list", u>>, <<"comment", Comment>> >>) :
        i \in InfoValues,
        a \in {Absent, BytesV(<<>>), OldTracker1},
        l \in {Absent, ListV(<<>>),
               ListV(<<ListV(<<OldTracker1>>), ListV(<<OldTracker2>>)>>)},
        u \in {Absent, ListV(<<OldWebseed>>), OldWebseed}}

\* what lt.bdecode can return: None for bytes it cannot decode, else the
\* decoded value, of any of the four bencode types
Decoded ==
    Documents \cup {NoneV, IntV(0), IntV(5), BytesV(<<>>), BytesV(<<120>>),
                    ListV(<<>>), ListV(<<IntV(5)>>), DictV(<<>>)}

---------------------------------------------------------------------------
(* main *)

NothingReceived == [received |-> "nothing", doc |-> NoneV]

Init ==
    /\ TRACKERS \in TrackerLists
    /\ WEBSEEDS \in WebseedLists
    /\ force \in BOOLEAN
    /\ source \in Decoded
    /\ torrent = NoneV
    /\ pc = "bdecode"
    /\ calls = <<>>
    /\ before = NoneV
    /\ ret = "None"
    /\ outcome = "running"
    /\ destination = NothingReceived

\* torrent = lt.bdecode(results.source.read())
Main_bdecode ==
    /\ pc = "bdecode"
    /\ torrent' = source
    /\ pc' = "check"
    /\ UNCHANGED <<TRACKERS, WEBSEEDS, force, source, calls, before, ret,
                   outcome, destination>>

\* if not torrent: ... results.destination.close(); exit(1)
Main_check ==
    /\ pc = "check"
    /\ IF ~Truthy(torrent)
       THEN pc' = "done" /\ outcome' = "exit1"
       ELSE pc' = "remove_private" /\ outcome' = outcome
    /\ UNCHANGED <<TRACKERS, WEBSEEDS, force, source, torrent, calls, before,
                   ret, destination>>

\* the gate of main stopping an already public torrent whatever force says
Main_remove_private_ignores_force ==
    /\ pc = "remove_private"
    /\ LET r == remove_private(torrent)
       IN /\ torrent' = r.torrent
          /\ ret' = r.ret
          /\ IF Raised(r.ret) THEN pc' = "done" /\ outcome' = "uncaught"
             ELSE IF r.ret = "False"
             THEN pc' = "done" /\ outcome' = "exit2"
             ELSE pc' = "swap_trackers" /\ outcome' = outcome
    /\ before' = torrent
    /\ calls' = Append(calls, "remove_private")
    /\ UNCHANGED <<TRACKERS, WEBSEEDS, force, source, destination>>

\* if not remove_private(torrent) and not results.force: ... exit(2)
Main_remove_private ==
    /\ pc = "remove_private"
    /\ LET r == remove_private(torrent)
       IN /\ torrent' = r.torrent
          /\ ret' = r.ret
          /\ IF Raised(r.ret) THEN pc' = "done" /\ outcome' = "uncaught"
             ELSE IF r.ret = "False" /\ ~force
             THEN pc' = "done" /\ outcome' = "exit2"
             ELSE pc' = "swap_trackers" /\ outcome' = outcome
    /\ before' = torrent
    /\ calls' = Append(calls, "remove_private")
    /\ UNCHANGED <<TRACKERS, WEBSEEDS, force, source, destination>>

\* swap_trackers(torrent)
Main_swap_trackers ==
    /\ pc = "swap_trackers"
    /\ LET r == swap_trackers(torrent)
       IN /\ torrent' = r.torrent
          /\ ret' = r.ret
          /\ IF Raised(r.ret) THEN pc' = "done" /\ outcome' = "uncaught"
             ELSE pc' = "swap_webseeds" /\ outcome' = outcome
    /\ before' = torrent
    /\ calls' = Append(calls, "swap_trackers")
    /\ UNCHANGED <<TRACKERS, WEBSEEDS, force, source, destination>>

\* swap_webseeds(torrent)
Main_swap_webseeds ==
    /\ pc = "swap_webseeds"
    /\ LET r == swap_webseeds(torrent)
       IN /\ torrent' = r.torrent
          /\ ret' = r.ret
          /\ IF Raised(r.ret) THEN pc' = "done" /\ outcome' = "uncaught"
             ELSE pc' = "write_torrent" /\ outcome' = outcome
    /\ before' = torrent
    /\ calls' = Append(calls, "swap_webseeds")
    /\ UNCHANGED <<TRACKERS, WEBSEEDS, force, source, destination>>

\* what the destination can hold once fd.write or fd.close has raised IOError:
\* nothing, the bytes flushed before the error, or all of them (close raising
\* after the last flush)
AfterIOError(t) ==
    {NothingReceived, [received |-> "partial", doc |-> t],
     [received |-> "complete", doc |-> t]}

\* def write_torrent(torrent, fd), and the exit code __main__ makes of its result
write_torrent(t) ==
    {[destination |-> [received |-> "complete", doc |-> t], ret |-> "True"]}
    \cup {[destination |-> d, ret |-> "False"] : d \in AfterIOError(t)}

\* main handing the document as decoded, not as edited, to write_torrent
Main_write_torrent_source ==
    /\ pc = "write_torrent"
    /\ \E w \in write_torrent(source) :
          /\ destination' = w.destination
          /\ ret' = w.ret
          /\ outcome' = IF w.ret = "True" THEN "exit0" ELSE "exit3"
    /\ pc' = "done"
    /\ before' = torrent
    /\ calls' = Append(calls, "write_torrent")
    /\ UNCHANGED <<TRACKERS, WEBSEEDS, force, source, torrent>>

\* return write_torrent(torrent, results.destination); exit(0) or exit(3)
Main_write_torrent ==
    /\ pc = "write_torrent"
    /\ \E w \in write_torrent(torrent) :
          /\ destination' = w.destination
          /\ ret' = w.ret
          /\ outcome' = IF w.ret = "True" THEN "exit0" ELSE "exit3"
    /\ pc' = "done"
    /\ before' = torrent
    /\ calls' = Append(calls, "write_torrent")
    /\ UNCHANGED <<TRACKERS, WEBSEEDS, force, source, torrent>>

Next ==
    \/ Main_bdecode
    \/ Main_check
    \/ Main_remove_private
    \/ Main_swap_trackers
    \/ Main_swap_webseeds
    \/ Main_write_torrent

Spec == Init /\ [][Next]_vars

---------------------------------------------------------------------------
(* The edits called on their own, in any order, on any decoded value *)

InitEdits ==
    /\ TRACKERS \in TrackerLists
    /\ WEBSEEDS \in WebseedLists
    /\ force = FALSE
    /\ source \in Decoded
    /\ torrent = source
    /\ pc = "edits"
    /\ calls = <<>>
    /\ before = NoneV
    /\ ret = "None"
    /\ outcome = "running"
    /\ destination = NothingReceived

\* one call f(torrent) of an edit: r is what the call does to torrent; an
\* exception ends the sequence of calls
Call(name, r) ==
    /\ pc = "edits"
    /\ Len(calls) < MaxCalls
    /\ torrent' = r.torrent
    /\ ret' = r.ret
    /\ before' = torrent
    /\ calls' = Append(calls, name)
    /\ pc' = IF Raised(r.ret) THEN "raised" ELSE "edits"
    /\ UNCHANGED <<TRACKERS, WEBSEEDS, force, source, outcome, destination>>

Edit_remove_private == Call("remove_private", remove_private(torrent))
Edit_swap_trackers == Call("swap_trackers", swap_trackers(torrent))
Edit_swap_webseeds == Call("swap_webseeds", swap_webseeds(torrent))

NextEdits ==
    \/ Edit_remove_private
    \/ Edit_swap_trackers
    \/ Edit_swap_webseeds

SpecEdits == InitEdits /\ [][NextEdits]_vars

---------------------------------------------------------------------------
(* Vocabulary of the properties *)

Range(f) == {f[i] : i \in DOMAIN f}

\* the last function called
LastCall == IF calls = <<>> THEN "none" ELSE calls[Len(calls)]

\* v is a dictionary whose b'info' is a dictionary
HasInfoDict(v) ==
    /\ v.kind = "dict"
    /\ "info" \in DOMAIN v.val
    /\ v.val["info"].kind = "dict"

\* the keys of b'info' of a document with an info dictionary
InfoKeys(v) == DOMAIN v.val["info"].val

\* u is the bytes of root followed by the bytes of name
IsConcatenation(u, root, name) ==
    /\ u.kind = "bytes"
    /\ Len(u.val) = Len(root.val) + Len(name.val)
    /\ \A i \in 1..Len(root.val) : u.val[i] = root.val[i]
    /\ \A i \in 1..Len(name.val) : u.val[Len(root.val) + i] = name.val[i]

\* every tracker URL a document names, in b'announce' or in a tier of
\* b'announce-list'
TrackersOf(v) ==
    (IF "announce" \in DOMAIN v.val THEN {v.val["announce"]} ELSE {})
    \cup (IF "announce-list" \in DOMAIN v.val
          THEN UNION {Range(tier.val) : tier \in Range(v.val["announce-list"].val)}
          ELSE {})

\* the keys the edits are about
TrackerKeys == {"announce", "announce-list"}
EditedKeys == TrackerKeys \cup {"url-list"}

\* the source document has an info dictionary without b'private'
LacksPrivate == HasInfoDict(source) /\ "private" \notin InfoKeys(source)

\* swap_webseeds cannot build the single-file list for document v
NoUsableName(v) ==
    /\ WEBSEEDS # <<>>
    /\ "files" \notin InfoKeys(v)
    /\ ("name" \notin InfoKeys(v) \/ v.val["info"].val["name"].kind # "bytes")

Pipeline == <<"remove_private", "swap_trackers", "swap_webseeds">>

---------------------------------------------------------------------------
(* C1: on a document with an info dictionary, remove_private returns True    *)
(* exactly when b'private' was in info before the call; afterwards the key    *)
(* is absent either way; and when it returns False the document is unchanged. *)
C1_StripPrivate ==
    (LastCall = "remove_private" /\ HasInfoDict(before)) =>
        /\ ret \in {"True", "False"}
        /\ (ret = "True") <=> ("private" \in InfoKeys(before))
        /\ HasInfoDict(torrent)
        /\ "private" \notin InfoKeys(torrent)
        /\ (ret = "False") => (torrent = before)

\* remove_private called twice on a private torrent: the second call finds
\* nothing to remove
C1_Witness ==
    /\ calls = <<"remove_private", "remove_private">>
    /\ HasInfoDict(source)
    /\ "private" \in InfoKeys(source)
    /\ ret = "False"

(* C2: with at least two configured trackers, after swap_trackers b'announce' *)
(* is TRACKERS[0] and b'announce-list' is one single-element tier per entry   *)
(* of TRACKERS, in order, whatever the two keys held before.                  *)
C2_TrackersReplaced ==
    (LastCall = "swap_trackers" /\ before.kind = "dict" /\ Len(TRACKERS) >= 2) =>
        /\ ret = "None"
        /\ TrackerKeys \subseteq DOMAIN torrent.val
        /\ torrent.val["announce"] = TRACKERS[1]
        /\ LET tiers == torrent.val["announce-list"]
           IN /\ tiers.kind = "list"
              /\ Len(tiers.val) = Len(TRACKERS)
              /\ \A i \in 1..Len(TRACKERS) :
                     /\ tiers.val[i].kind = "list"
                     /\ tiers.val[i].val = <<TRACKERS[i]>>

\* three trackers replacing an announce and a two-tier announce-list
C2_Witness ==
    /\ LastCall = "swap_trackers"
    /\ Len(TRACKERS) = 3
    /\ before.kind = "dict"
    /\ TrackerKeys \subseteq DOMAIN before.val
    /\ before.val["announce"] = OldTracker1
    /\ Len(before.val["announce-list"].val) = 2

(* C3: with no configured tracker, after swap_trackers the document holds    *)
(* neither b'announce' nor b'announce-list', whatever they held before.       *)
C3_TrackersRemoved ==
    (LastCall = "swap_trackers" /\ before.kind = "dict" /\ TRACKERS = <<>>) =>
        /\ ret = "None"
        /\ DOMAIN torrent.val \cap TrackerKeys = {}

(* C4: with a non-empty configured list, after swap_trackers every tracker   *)
(* URL in b'announce' or in a tier of b'announce-list' is a configured one.   *)
C4_NoOldTrackerSurvives ==
    (LastCall = "swap_trackers" /\ before.kind = "dict" /\ TRACKERS # <<>>) =>
        /\ ret = "None"
        /\ TrackersOf(torrent) \subseteq Range(TRACKERS)

\* b'url-list' of document v holds, in the order of WEBSEEDS, WEBSEEDS itself
\* when `info` has b'files' and else each WEBSEEDS[i] followed by info[b'name']
WebseedsSet(v, info) ==
    /\ "url-list" \in DOMAIN v.val
    /\ LET urls == v.val["url-list"]
       IN /\ urls.kind = "list"
          /\ Len(urls.val) = Len(WEBSEEDS)
          /\ \A i \in 1..Len(WEBSEEDS) :
                IF "files" \in DOMAIN info
                THEN urls.val[i] = WEBSEEDS[i]
                ELSE /\ "name" \in DOMAIN info
                     /\ IsConcatenation(urls.val[i], WEBSEEDS[i], info["name"])

(* C5, as claimed: with a non-empty configured webseed list, on every        *)
(* document with an info dictionary, after swap_webseeds b'url-list' is       *)
(* WEBSEEDS itself when info has b'files', and otherwise the list of          *)
(* WEBSEEDS[i] followed by info[b'name'], same length and order.              *)
C5_Webseeds ==
    (/\ LastCall = "swap_webseeds"
     /\ HasInfoDict(before)
     /\ WEBSEEDS # <<>>) =>
        WebseedsSet(torrent, before.val["info"].val)

(* C5, amended: the same for the documents whose info has b'files' or a byte *)
(* string b'name'; on the others swap_webseeds raises and leaves b'url-list'  *)
(* an empty list.                                                             *)
C5_WebseedsAmended ==
    (/\ LastCall = "swap_webseeds"
     /\ HasInfoDict(before)
     /\ WEBSEEDS # <<>>) =>
        IF NoUsableName(before)
        THEN /\ Raised(ret)
             /\ torrent.val = [k \in DOMAIN before.val \cup {"url-list"} |->
                                 IF k = "url-list" THEN ListV(<<>>)
                                 ELSE before.val[k]]
        ELSE /\ ret = "None"
             /\ WebseedsSet(torrent, before.val["info"].val)

\* two webseeds replacing the url-list of a single-file torrent
C5_Witness ==
    /\ LastCall = "swap_webseeds"
    /\ HasInfoDict(before)
    /\ Len(WEBSEEDS) = 2
    /\ "files" \notin InfoKeys(before)
    /\ "name" \in InfoKeys(before)
    /\ "url-list" \in DOMAIN before.val
    /\ ret = "None"

(* C6, as claimed: for a decoded document without info.private the run ends  *)
(* "already public" (exit 2) exactly when force is off, with no further edit  *)
(* and nothing written; with force it goes through swap_trackers,             *)
(* swap_webseeds and the write.                                               *)
C6_AlreadyPublic ==
    LacksPrivate =>
        /\ (outcome = "exit2") =>
              (~force /\ calls = <<"remove_private">>
                      /\ destination = NothingReceived)
        /\ (pc = "done") =>
              /\ (outcome = "exit2") <=> ~force
              /\ force => calls = Pipeline \o <<"write_torrent">>

(* C6, amended: the same, except that with force the write is not reached    *)
(* when swap_webseeds raises for want of a usable info.name.                  *)
C6_AlreadyPublicAmended ==
    LacksPrivate =>
        /\ (outcome = "exit2") =>
              (~force /\ calls = <<"remove_private">>
                      /\ destination = NothingReceived)
        /\ (pc = "done") =>
              /\ (outcome = "exit2") <=> ~force
              /\ force =>
                    \/ calls = Pipeline \o <<"write_torrent">>
                    \/ /\ calls = Pipeline
                       /\ Raised(ret)
                       /\ outcome = "uncaught"
                       /\ NoUsableName(source)

\* an already public torrent stopped at the gate
C6_Witness ==
    /\ LacksPrivate
    /\ ~force
    /\ pc = "done"
    /\ outcome = "exit2"

(* C7: in every run, either the outcome is success and the destination holds *)
(* the complete encoding of the document with the three edits applied, or the *)
(* destination has received nothing.                                          *)
C7_AllOrNothing ==
    \/ destination = NothingReceived
    \/ /\ outcome = "exit0"
       /\ destination.received = "complete"
       /\ calls = Pipeline \o <<"write_torrent">>
       /\ destination.doc = torrent

(* C8: after the pipeline every top-level key other than b'announce',        *)
(* b'announce-list' and b'url-list', and every key of info other than         *)
(* b'private', is present with the value it had, and no other key was added.  *)
C8_Frame ==
    (source.kind = "dict" /\ pc \notin {"bdecode"}) =>
        /\ torrent.kind = "dict"
        /\ DOMAIN torrent.val \subseteq DOMAIN source.val \cup EditedKeys
        /\ \A k \in DOMAIN source.val \ EditedKeys :
              /\ k \in DOMAIN torrent.val
              /\ (k # "info") => (torrent.val[k] = source.val[k])
        /\ ("info" \in DOMAIN source.val) =>
              IF source.val["info"].kind = "dict"
              THEN /\ torrent.val["info"].kind = "dict"
                   /\ InfoKeys(torrent) \subseteq InfoKeys(source)
                   /\ \A k \in InfoKeys(source) \ {"private"} :
                         /\ k \in InfoKeys(torrent)
                         /\ torrent.val["info"].val[k] = source.val["info"].val[k]
              ELSE torrent.val["info"] = source.val["info"]

\* the three edits applied to a private torrent with trackers and webseeds
C8_Witness ==
    /\ calls = Pipeline
    /\ pc = "write_torrent"
    /\ HasInfoDict(source)
    /\ "private" \in InfoKeys(source)
    /\ EditedKeys \cup {"comment"} \subseteq DOMAIN source.val
    /\ TRACKERS # <<>>
    /\ WEBSEEDS # <<>>
    /\ torrent # source

(* C9: when the source does not decode, or decodes to something that is not  *)
(* a dictionary, the run ends "not a valid torrent" (exit 1): no edit is      *)
(* attempted, nothing is written, and nothing else happens.                   *)
C9_NotADictionary ==
    (source.kind # "dict") =>
        /\ calls = <<>>
        /\ destination = NothingReceived
        /\ outcome \in {"running", "exit1"}
        /\ (pc = "done") => (outcome = "exit1")

(* C10: in every run that ends in success, the document handed to the        *)
(* encoder and written to the destination has no b'private' in info.          *)
C10_PublicOnSuccess ==
    (outcome = "exit0") =>
        /\ destination.received = "complete"
        /\ destination.doc.kind = "dict"
        /\ "info" \in DOMAIN destination.doc.val
        /\ (destination.doc.val["info"].kind = "dict") =>
              ("private" \notin InfoKeys(destination.doc))

\* a private torrent converted without force
C10_Witness ==
    /\ outcome = "exit0"
    /\ ~force
    /\ HasInfoDict(source)
    /\ "private" \in InfoKeys(source)

====
